---- MODULE Spec2Model ----
(***************************************************************************)
(* Gstd property reader: gstd_property_reader_read and the type-masking   *)
(* dispatcher gstd_property_mask_type of src/gstd/gstd_property_reader.c. *)
(*                                                                         *)
(* One live object (the GstdObject handed to the reader) carries a set of  *)
(* property descriptors (GParamSpec).  A read is modelled statement by     *)
(* statement: argument checks, descriptor lookup, permission check, value  *)
(* fetch, instance-type check, type masking.                               *)
(***************************************************************************)
EXTENDS Integers, FiniteSets, Sequences, TLC

VARIABLES
    live,       \* the live object: [name, props], props : property name -> GParamSpec
    iface,      \* argument iface of the call in progress
    object,     \* argument object of the call in progress
    name,       \* argument name of the call in progress
    pc,         \* position inside gstd_property_reader_read
    pspec,      \* local pspec of gstd_property_reader_read
    resource,   \* local resource of gstd_property_reader_read (the word g_object_get filled)
    ret,        \* value returned to the caller
    log,        \* diagnostic emitted by the call
    lookups,    \* number of g_object_class_find_property calls made by the call
    fetched,    \* names of the properties whose value the call obtained with g_object_get
    masked,     \* whether the call entered gstd_property_mask_type
    created,    \* TypedProperty objects built with g_object_new by the call
    prev        \* what the caller kept of its last failed read: [log, ret]

vars == <<live, iface, object, name, pc, pspec, resource, ret, log,
          lookups, fetched, masked, created, prev>>

-----------------------------------------------------------------------------
(* Bounds *)

\* Largest number of properties the live object declares.
MaxProps == 1

-----------------------------------------------------------------------------
(* Values *)

NULL == "<NULL>"

\* Property names the live object may declare, and one it never declares.
DeclNames == {"mute", "elements"}
AbsentName == "volume-db"
Names == DeclNames \cup {AbsentName}

\* The reader interface and the resource handed to read.
Reader == "reader"
ObjectName == "e1"

\* GType of a property's value (pspec->value_type).
G_TYPE_BOOLEAN == "G_TYPE_BOOLEAN"
G_TYPE_INT == "G_TYPE_INT"
G_TYPE_UINT == "G_TYPE_UINT"
G_TYPE_INT64 == "G_TYPE_INT64"
G_TYPE_UINT64 == "G_TYPE_UINT64"
G_TYPE_STRING == "G_TYPE_STRING"
G_TYPE_FLOAT == "G_TYPE_FLOAT"
G_TYPE_ENUM == "G_TYPE_ENUM"
G_TYPE_BOXED == "G_TYPE_BOXED"
G_TYPE_OBJECT == "G_TYPE_OBJECT"

ValueTypes == {G_TYPE_BOOLEAN, G_TYPE_INT, G_TYPE_UINT, G_TYPE_INT64, G_TYPE_UINT64,
               G_TYPE_STRING, G_TYPE_FLOAT, G_TYPE_ENUM, G_TYPE_BOXED, G_TYPE_OBJECT}

\* Types g_object_get stores as 4 bytes, as 8 bytes, and as a pointer.
Word32Types == {G_TYPE_BOOLEAN, G_TYPE_INT, G_TYPE_UINT, G_TYPE_FLOAT, G_TYPE_ENUM}
Word64Types == {G_TYPE_INT64, G_TYPE_UINT64}
PointerTypes == {G_TYPE_STRING, G_TYPE_BOXED}

\* Permission flags of a descriptor (pspec->flags).
G_PARAM_READABLE == "G_PARAM_READABLE"
GSTD_PARAM_READ == "GSTD_PARAM_READ"
ParamFlags == {G_PARAM_READABLE, GSTD_PARAM_READ}

\* A property value: its literal, and for an object-valued property the kind
\* of instance it points to (lit is then the instance's name).
Val(l, i) == [lit |-> l, inst |-> i]

ValuesOf(t) ==
    CASE t = G_TYPE_BOOLEAN -> {Val("TRUE", "none")}
      [] t = G_TYPE_INT     -> {Val("-5", "none")}
      [] t = G_TYPE_UINT    -> {Val("5", "none")}
      [] t = G_TYPE_INT64   -> {Val("0", "none"), Val("1200", "none")}
      [] t = G_TYPE_UINT64  -> {Val("7", "none")}
      [] t = G_TYPE_STRING  -> {Val(NULL, "none"), Val("src0", "none")}
      [] t = G_TYPE_FLOAT   -> {Val("1.5", "none")}
      [] t = G_TYPE_ENUM    -> {Val("1", "none")}
      [] t = G_TYPE_BOXED   -> {Val("caps", "none")}
      [] t = G_TYPE_OBJECT  -> {Val(NULL, "none"), Val("", "GObject"),
                                Val("elements", "GstdObject"), Val("p0", "GstdObject")}

\* A GParamSpec.
ParamSpecs(n) ==
    UNION {{[name |-> n, value_type |-> t, flags |-> f, value |-> v] :
                f \in SUBSET ParamFlags, v \in ValuesOf(t)} : t \in ValueTypes}

NoSpec == [name |-> NULL, value_type |-> "G_TYPE_INVALID", flags |-> {}, value |-> Val(NULL, "none")]

\* The live objects read can be handed: every choice of at most MaxProps
\* declared properties.
LiveObjects ==
    {[name |-> ObjectName, props |-> p] :
        p \in UNION {{f \in [S -> UNION {ParamSpecs(n) : n \in S}] :
                          \A n \in S : f[n].name = n} :
                     S \in {T \in SUBSET DeclNames : Cardinality(T) <= MaxProps}}}

\* A GstdObject handed back to the caller.
Obj(t, n, tg) == [type |-> t, name |-> n, target |-> tg]
NullObj == Obj(NULL, NULL, NULL)

\* The word in the local `resource`.
Word(c, n) == [cls |-> c, name |-> n]
Uninit == Word("uninit", "")

\* Diagnostics.
NoLog == "none"
MsgCritical == "assertion failed"
MsgNoSuch == "No %s resource in %s"
MsgNotReadable == "The resource %s is not readable"
MsgNotValid == "%s is not a valid resource"

NoPrev == [log |-> NoLog, ret |-> NullObj]

-----------------------------------------------------------------------------
(* Library operations the reader calls *)

\* g_object_class_find_property (klass, name): the descriptor called name, or NULL.
g_object_class_find_property(klass, n) ==
    IF n \in DOMAIN klass THEN klass[n] ELSE NoSpec

\* GSTD_PARAM_IS_READ (flags): the resource layer's own readable flag.
GSTD_PARAM_IS_READ(flags) == GSTD_PARAM_READ \in flags

\* g_object_get (object, name, &resource, NULL): what the pointer-sized local
\* `resource` holds afterwards.  The local is not initialised and the value is
\* stored with the width of the property's own type: a 4-byte value leaves the
\* upper half of the word as it was, an 8-byte integer is taken as an address,
\* a string or boxed value is a pointer to memory that is no GTypeInstance.
g_object_get(d) ==
    CASE d.value_type \in Word32Types  -> Word("partial", "")
      [] d.value_type \in Word64Types  ->
            IF d.value.lit = "0" THEN Word("null", "") ELSE Word("wild", "")
      [] d.value_type \in PointerTypes ->
            IF d.value.lit = NULL THEN Word("null", "") ELSE Word("wild", "")
      [] OTHER ->
            IF d.value.inst = "GstdObject" THEN Word("gstd", d.value.lit)
            ELSE IF d.value.inst = "GObject" THEN Word("gobject", "")
            ELSE Word("null", "")

\* GSTD_IS_OBJECT (resource): the outcomes of the instance check.  It reads
\* through the word as a GTypeInstance; on a word that is no instance pointer
\* the read either faults or finds nothing that is a GstdObject.
GSTD_IS_OBJECT(w) ==
    CASE w.cls = "gstd"    -> {"TRUE"}
      [] w.cls = "gobject" -> {"FALSE"}
      [] w.cls = "null"    -> {"FALSE"}
      [] OTHER             -> {"FALSE", "fault"}

-----------------------------------------------------------------------------
(* gstd_property_reader_read, statement by statement *)

Init ==
    /\ live \in LiveObjects
    /\ iface = NULL
    /\ object = NULL
    /\ name = NULL
    /\ pc = "idle"
    /\ pspec = NoSpec
    /\ resource = Uninit
    /\ ret = NullObj
    /\ log = NoLog
    /\ lookups = 0
    /\ fetched = {}
    /\ masked = FALSE
    /\ created = {}
    /\ prev = NoPrev

\* ReadEntry without the check of name (line 94 left out).
ReadEntry_NoNameCheck(i, o, n) ==
    /\ pc \in {"idle", "done"}
    /\ iface' = i
    /\ object' = o
    /\ name' = n
    /\ pspec' = NoSpec
    /\ resource' = Uninit
    /\ lookups' = 0
    /\ fetched' = {}
    /\ masked' = FALSE
    /\ created' = {}
    /\ ret' = NullObj
    /\ prev' = IF pc = "done" /\ log # NoLog THEN [log |-> log, ret |-> ret] ELSE prev
    /\ IF i = NULL \/ o = NULL
       THEN log' = MsgCritical /\ pc' = "done"
       ELSE log' = NoLog /\ pc' = "find"
    /\ UNCHANGED live

\* Entry and the three g_return_val_if_fail checks (lines 85-94).
ReadEntry(i, o, n) ==
    /\ pc \in {"idle", "done"}
    /\ iface' = i
    /\ object' = o
    /\ name' = n
    /\ pspec' = NoSpec
    /\ resource' = Uninit
    /\ lookups' = 0
    /\ fetched' = {}
    /\ masked' = FALSE
    /\ created' = {}
    /\ ret' = NullObj
    /\ prev' = IF pc = "done" /\ log # NoLog THEN [log |-> log, ret |-> ret] ELSE prev
    /\ IF i = NULL \/ o = NULL \/ n = NULL
       THEN log' = MsgCritical /\ pc' = "done"
       ELSE log' = NoLog /\ pc' = "find"
    /\ UNCHANGED live

\* FindProperty that logs the missing property but does not return.
FindProperty_NoReturn ==
    /\ pc = "find"
    /\ LET p == g_object_class_find_property(live.props, name) IN
        /\ pspec' = p
        /\ lookups' = lookups + 1
        /\ log' = IF p = NoSpec THEN MsgNoSuch ELSE log
        /\ pc' = "perm"
        /\ UNCHANGED ret
    /\ UNCHANGED <<live, iface, object, name, resource, fetched, masked, created, prev>>

\* klass = G_OBJECT_GET_CLASS (object); pspec = g_object_class_find_property;
\* if (!pspec) { GST_ERROR; return NULL; }   (lines 96-104)
FindProperty ==
    /\ pc = "find"
    /\ LET p == g_object_class_find_property(live.props, name) IN
        /\ pspec' = p
        /\ lookups' = lookups + 1
        /\ IF p = NoSpec
           THEN log' = MsgNoSuch /\ ret' = NullObj /\ pc' = "done"
           ELSE pc' = "perm" /\ UNCHANGED <<log, ret>>
    /\ UNCHANGED <<live, iface, object, name, resource, fetched, masked, created, prev>>

\* CheckReadable that refuses only when both flags are unset (&& for ||).
CheckReadable_And ==
    /\ pc = "perm"
    /\ IF ~GSTD_PARAM_IS_READ(pspec.flags) /\ ~(G_PARAM_READABLE \in pspec.flags)
       THEN log' = MsgNotReadable /\ ret' = NullObj /\ pc' = "done"
       ELSE pc' = "get" /\ UNCHANGED <<log, ret>>
    /\ UNCHANGED <<live, iface, object, name, pspec, resource, lookups, fetched,
                   masked, created, prev>>

\* CheckReadable that looks at the native flag alone.
CheckReadable_NativeOnly ==
    /\ pc = "perm"
    /\ IF ~(G_PARAM_READABLE \in pspec.flags)
       THEN log' = MsgNotReadable /\ ret' = NullObj /\ pc' = "done"
       ELSE pc' = "get" /\ UNCHANGED <<log, ret>>
    /\ UNCHANGED <<live, iface, object, name, pspec, resource, lookups, fetched,
                   masked, created, prev>>

\* if (!GSTD_PARAM_IS_READ (pspec->flags) || !(pspec->flags & G_PARAM_READABLE))
\*   { GST_ERROR; return NULL; }              (lines 106-110)
CheckReadable ==
    /\ pc = "perm"
    /\ IF ~GSTD_PARAM_IS_READ(pspec.flags) \/ ~(G_PARAM_READABLE \in pspec.flags)
       THEN log' = MsgNotReadable /\ ret' = NullObj /\ pc' = "done"
       ELSE pc' = "get" /\ UNCHANGED <<log, ret>>
    /\ UNCHANGED <<live, iface, object, name, pspec, resource, lookups, fetched,
                   masked, created, prev>>

\* ObjectGet that takes the value out of the live object instead of copying it.
ObjectGet_Steal ==
    /\ pc = "get"
    /\ resource' = g_object_get(live.props[name])
    /\ live' = [live EXCEPT !.props[name].value = Val(NULL, "none")]
    /\ fetched' = fetched \cup {name}
    /\ pc' = "isobj"
    /\ UNCHANGED <<iface, object, name, pspec, ret, log, lookups, masked,
                   created, prev>>

\* g_object_get (object, name, &resource, NULL);   (line 112)
ObjectGet ==
    /\ pc = "get"
    /\ resource' = g_object_get(live.props[name])
    /\ fetched' = fetched \cup {name}
    /\ pc' = "isobj"
    /\ UNCHANGED <<live, iface, object, name, pspec, ret, log, lookups, masked,
                   created, prev>>

\* if (!GSTD_IS_OBJECT (resource)) return gstd_property_mask_type (object, name);
\* return resource;                                  (lines 114-119)
CheckIsObject ==
    /\ pc = "isobj"
    /\ \E r \in GSTD_IS_OBJECT(resource) :
        CASE r = "TRUE"  -> /\ ret' = Obj("GstdObject", resource.name, NULL)
                            /\ pc' = "done"
          [] r = "FALSE" -> /\ pc' = "mask"
                            /\ UNCHANGED ret
          [] OTHER       -> /\ pc' = "crashed"
                            /\ UNCHANGED ret
    /\ UNCHANGED <<live, iface, object, name, pspec, resource, log, lookups, fetched,
                   masked, created, prev>>

\* The TypedProperty variant each case of the switch builds (lines 134-167);
\* NULL for the default case.
MaskedType(t) ==
    CASE t = G_TYPE_BOOLEAN -> "GSTD_TYPE_PROPERTY_BOOLEAN"
      [] t \in {G_TYPE_INT, G_TYPE_UINT, G_TYPE_UINT64, G_TYPE_INT64} -> "GSTD_TYPE_PROPERTY_INT"
      [] t = G_TYPE_STRING  -> "GSTD_TYPE_PROPERTY_INT"
      [] OTHER              -> NULL

\* gstd_property_mask_type (object, name)   (lines 122-168)
gstd_property_mask_type ==
    /\ pc = "mask"
    /\ masked' = TRUE
    /\ IF object = NULL \/ name = NULL
       THEN /\ log' = MsgCritical /\ ret' = NullObj /\ pc' = "done"
            /\ UNCHANGED <<lookups, created>>
       ELSE LET p == g_object_class_find_property(live.props, name)
                t == MaskedType(p.value_type) IN
            /\ lookups' = lookups + 1
            /\ IF p = NoSpec
               THEN pc' = "crashed" /\ UNCHANGED <<log, ret, created>>
               ELSE IF t = NULL
               THEN /\ log' = MsgNotValid /\ ret' = NullObj /\ pc' = "done"
                    /\ UNCHANGED created
               ELSE /\ ret' = Obj(t, p.name, object)
                    /\ created' = created \cup {Obj(t, p.name, object)}
                    /\ pc' = "done"
                    /\ UNCHANGED log
    /\ UNCHANGED <<live, iface, object, name, pspec, resource, fetched, prev>>

Next ==
    \/ \E i \in {NULL, Reader}, o \in {NULL, ObjectName}, n \in {NULL} \cup Names :
            ReadEntry(i, o, n)
    \/ FindProperty
    \/ CheckReadable
    \/ ObjectGet
    \/ CheckIsObject
    \/ gstd_property_mask_type

Spec == Init /\ [][Next]_vars

-----------------------------------------------------------------------------
(* Properties *)

ArgsPresent == iface # NULL /\ object # NULL /\ name # NULL
Declared == name \in DOMAIN live.props
Granted(d) == GSTD_PARAM_READ \in d.flags /\ G_PARAM_READABLE \in d.flags
Terminal == pc \in {"done", "crashed"}

\* The value types of the type-masking table and the variant the table gives each.
TableTypes == {G_TYPE_BOOLEAN, G_TYPE_INT, G_TYPE_UINT, G_TYPE_INT64, G_TYPE_UINT64,
               G_TYPE_STRING}
TableVariant(t) ==
    CASE t = G_TYPE_BOOLEAN -> "GSTD_TYPE_PROPERTY_BOOLEAN"
      [] t = G_TYPE_STRING  -> "GSTD_TYPE_PROPERTY_STRING"
      [] OTHER              -> "GSTD_TYPE_PROPERTY_INT"

\* C1: a read of a non-empty name the live object does not declare ends, right
\* after the descriptor lookup, with the "No ... resource" failure, returns no
\* resource and has built no TypedProperty.
C1_AbsentNameFails ==
    (pc \notin {"idle", "find"} /\ ArgsPresent /\ name # "" /\ ~Declared)
        => /\ pc = "done"
           /\ log = MsgNoSuch
           /\ ret = NullObj
           /\ created = {}

C1_Witness ==
    /\ pc = "done" /\ ArgsPresent /\ name = AbsentName
    /\ DOMAIN live.props # {}
    /\ lookups = 1

\* C2: a read of a declared property whose overlay flag or native readable flag
\* (or both) is unset ends, right after the permission check, with the "not
\* readable" failure and has built no TypedProperty, whatever the value type.
C2_DeniedReadFails ==
    (pc \notin {"idle", "find", "perm"} /\ ArgsPresent /\ Declared
            /\ ~Granted(live.props[name]))
        => /\ pc = "done"
           /\ log = MsgNotReadable
           /\ ret = NullObj
           /\ created = {}
           /\ ~masked

C2_Witness ==
    /\ pc = "done" /\ ArgsPresent /\ Declared
    /\ live.props[name].flags = {G_PARAM_READABLE}
    /\ live.props[name].value_type = G_TYPE_STRING
    /\ log = MsgNotReadable

\* C3: a completed read of a declared, readable property of a table type whose
\* value is no resource returns a TypedProperty of the variant the table gives:
\* Boolean for boolean, Integer for the four integer types, String for string.
C3_VariantMatchesTable ==
    (pc = "done" /\ ArgsPresent /\ Declared /\ Granted(live.props[name])
            /\ live.props[name].value_type \in TableTypes /\ resource.cls # "gstd")
        => /\ ret \in created
           /\ ret.type = TableVariant(live.props[name].value_type)

\* C4: a read of a declared, readable property whose value type is outside the
\* table and whose value is no resource terminates by returning the "not a
\* valid resource" failure: it does not crash and builds no TypedProperty.
C4_UnsupportedTypeFails ==
    (Terminal /\ ArgsPresent /\ Declared /\ Granted(live.props[name])
            /\ live.props[name].value_type \notin TableTypes /\ resource.cls # "gstd")
        => /\ pc = "done"
           /\ log = MsgNotValid
           /\ ret = NullObj
           /\ created = {}

\* C5: two failed reads of different error kinds hand the caller different
\* results, so the caller can tell from the result which kind occurred.
C5_FailuresDistinguishable ==
    (pc = "done" /\ log # NoLog /\ prev.log # NoLog /\ prev.log # log)
        => ret # prev.ret

\* C6: the resource a successful read returns carries the requested name,
\* whether it is a TypedProperty built by the dispatcher or a sub-resource
\* returned directly.
C6_ReturnedNameIsRequested ==
    (pc = "done" /\ ret # NullObj) => ret.name = name

\* C7: no step of any read, successful or failed, changes the live object: its
\* name, its declared property set, the permission flags and the values.
C7_ReadLeavesTargetUnchanged == [][live' = live]_vars

C7_Witness ==
    /\ pc = "done" /\ ret # NullObj /\ fetched # {}
    /\ prev.log # NoLog

\* C8: a read with an absent interface, resource or name returns no resource
\* at once: no descriptor lookup, no value fetch, no dispatch, no TypedProperty.
C8_AbsentArgumentFailsSafely ==
    (pc # "idle" /\ (iface = NULL \/ object = NULL \/ name = NULL))
        => /\ pc = "done"
           /\ ret = NullObj
           /\ log = MsgCritical
           /\ lookups = 0
           /\ fetched = {}
           /\ ~masked
           /\ created = {}

C8_Witness ==
    /\ pc = "done" /\ iface = Reader /\ object = ObjectName /\ name = NULL
    /\ DOMAIN live.props # {}
    /\ log = MsgCritical

\* C9: once a read has fetched a value, a value that is a GstdObject is
\* returned as it is, without dispatch and without a wrapper, and the
\* dispatcher is entered exactly when the value is no GstdObject.
C9_DispatchExactlyWhenNotResource ==
    (Terminal /\ fetched # {})
        => /\ resource.cls = "gstd" =>
                /\ ret = Obj("GstdObject", resource.name, NULL)
                /\ created = {}
           /\ masked <=> resource.cls # "gstd"

\* C10: within a read the value is fetched only after the descriptor was found
\* and both readable flags were seen set, and the dispatcher runs only after the
\* fetch: no value of an undeclared or unreadable property is ever obtained.
C10_FetchOnlyAfterLookupAndPermission ==
    /\ \A n \in fetched : n \in DOMAIN live.props /\ Granted(live.props[n])
    /\ pc \in {"perm", "get"} => lookups = 1 /\ pspec # NoSpec /\ fetched = {}
    /\ pc = "get" => Granted(pspec)
    /\ fetched # {} => fetched = {name} /\ pspec = live.props[name] /\ lookups >= 1
    /\ masked => fetched # {}
    /\ created # {} => masked

C10_Witness ==
    /\ pc = "done" /\ fetched # {} /\ masked /\ created # {}
    /\ lookups = 2

====
